---- MODULE Spec2Model ----
(***************************************************************************)
(* Model of cmd/sbctl/main.go: the bootstrap-and-dispatch sequence of      *)
(* sbctl.  main() is followed statement by statement: configuration        *)
(* resolution, baseFlags, TPM open, construction of config.State, the      *)
(* root PersistentPreRun hook, the landlock gate, cobra's ExecuteContext   *)
(* and the error classification that ends in os.Exit(1).                   *)
(*                                                                         *)
(* The environment of a run (which files exist, whether a TPM is there,    *)
(* the command line) is chosen in Init and never changes.  Everything the  *)
(* run does that can be observed from outside (calls into collaborators    *)
(* and lines written to stdout/stderr) is appended to `trace` in program   *)
(* order.                                                                  *)
(***************************************************************************)
EXTENDS Integers, Sequences, FiniteSets, TLC

\* Bounds of the model.
MaxSubPrints == 1   \* human-readable lines a subcommand prints
MaxIds == 2         \* sentinel errors one returned error can wrap

(***************************************************************************)
(* Command line.                                                           *)
(***************************************************************************)
\* CmdOptions: the four boolean persistent flags (--config is never read).
FlagNames == {"JsonOutput", "QuietOutput", "DisableLandlock", "Debug"}

CmdOptions == [FlagNames -> BOOLEAN]

\* var cmdOptions = CmdOptions{}
ZeroCmdOptions == [f \in FlagNames |-> FALSE]

\* Shapes of a command line as cobra's ExecuteContext tells them apart.
ArgvKinds == {"unknown", "flagerr", "help", "run"}

(***************************************************************************)
(* Errors.  An error value is what the classifier can observe of it:       *)
(* whether its message starts with "unknown command", and which sentinel   *)
(* errors errors.Is finds in its chain.                                    *)
(***************************************************************************)
Identities == {"permission", "immutable", "oprom", "noeventlog", "setupmode", "silent"}

NoErr == [isnil |-> TRUE, prefix |-> FALSE, ids |-> {}]

MkErr(prefix, ids) == [isnil |-> FALSE, prefix |-> prefix, ids |-> ids]

\* ErrSilent = errors.New("SilentErr")
ErrSilent == MkErr(FALSE, {"silent"})

\* cobra's "unknown command %q for %q" error
ErrUnknownCommand == MkErr(TRUE, {})

\* Errors a subcommand can return.
SubErrors == {MkErr(p, s) : p \in BOOLEAN, s \in {t \in SUBSET Identities : Cardinality(t) <= MaxIds}}

(***************************************************************************)
(* State.                                                                  *)
(***************************************************************************)
VARIABLES
    env,         \* the machine: legacy database present, /etc/sbctl/sbctl.conf
                 \* present, how reading and parsing that file ends, the Landlock
                 \* value a loaded configuration carries, TPM present, and the
                 \* firmware-variable store: "plain", "immutable" (the flag is
                 \* set and can be cleared), "stuck" (set, clearing fails) or
                 \* "unopenable"
    argv,        \* the command line: the flags given and its shape
    pc,          \* position in main()
    conf,        \* var conf *config.Config (state.Config points to the same object)
    cmdOptions,  \* var cmdOptions
    rootPreRun,  \* rootCmd.PersistentPreRun: which closure is installed
    flagErrFunc, \* whether rootCmd.SetFlagErrorFunc has been called
    rwc,         \* the TPM transport handle: "nil", "open" or "closed"
    efivarfs,    \* state.Efivarfs: "nil" until the builder chain has returned
    tpmerr,      \* tpmerr != nil
    deferred,    \* whether defer rwc.Close() was registered
    printOn,     \* logging: whether printing is on (PrintOn / PrintOff)
    disableInfo, \* logging.DisableInfo
    logLevel,    \* level of the default slog logger ("default" until it is set)
    json,        \* JsonOut in this run: "none", "ok" or "failed"
    subPrints,   \* human-readable lines the subcommand has printed
    err,         \* the error ExecuteContext returned
    action,      \* the branch of the error classification that was taken
    exitCode,    \* the exit status, meaningful once pc = "exited"
    trace        \* collaborator calls and output lines, in program order

vars == <<env, efivarfs, argv, pc, conf, cmdOptions, rootPreRun, flagErrFunc, rwc, tpmerr,
          deferred, printOn, disableInfo, logLevel, json, subPrints, err, action,
          exitCode, trace>>

\* Entries of trace that are lines on stdout or stderr.
OutputKinds == {"migrate_warning", "fatal_msg", "flag_error", "usage", "help",
                "tpm_debug", "info", "json_doc", "unknown_msg", "root_msg",
                "chattr_msg", "oprom_msg", "noeventlog_msg", "setupmode_msg",
                "raw_err"}

\* No configuration has been assigned yet (var conf *config.Config).
NilConf == [source |-> "none", Landlock |-> FALSE]

(***************************************************************************)
(* The logging package: Println and Error write only while printing is on. *)
(***************************************************************************)
LoggingPrint(on, kind) == IF on THEN <<kind>> ELSE <<>>

(***************************************************************************)
(* Configuration resolution, main.go:99-113.                               *)
(***************************************************************************)
\* config.HasOldConfig(fs, sbctl.DatabasePath)
HasOldConfig(e) == e.legacy

\* config.HasConfigurationFile(fs, "/etc/sbctl/sbctl.conf") and afero.Exists
HasConfigurationFile(e) == e.current

\* The if / else if / else chain that picks the configuration source.
SelectSource_ignoreCurrent(e) ==
    IF HasOldConfig(e) THEN "legacy"
    ELSE IF HasConfigurationFile(e) THEN "current"
    ELSE "default"

SelectSource_noLegacy(e) ==
    IF HasConfigurationFile(e) THEN "current" ELSE "default"

SelectSource(e) ==
    IF HasOldConfig(e) /\ ~HasConfigurationFile(e) THEN "legacy"
    ELSE IF HasConfigurationFile(e) THEN "current"
    ELSE "default"

\* Outcomes of os.ReadFile followed by config.NewConfig.
LoadOutcomes == {"ok", "readfail", "parsefail"}

\* config.DefaultConfig(): sandboxing is enabled by default.
DefaultConfig == [source |-> "default", Landlock |-> TRUE]

\* The else-if branch, main.go:102-110: either error ends in log.Fatal.
LoadCurrent_fallback(e, outcome) ==
    IF outcome = "ok"
    THEN [fatal |-> FALSE, conf |-> [source |-> "current", Landlock |-> e.landlock]]
    ELSE [fatal |-> FALSE, conf |-> DefaultConfig]

LoadCurrent(e, outcome) ==
    IF outcome = "ok"
    THEN [fatal |-> FALSE, conf |-> [source |-> "current", Landlock |-> e.landlock]]
    ELSE [fatal |-> TRUE, conf |-> NilConf]

\* config.OldConfig(sbctl.DatabasePath)
OldConfig(e) == [source |-> "legacy", Landlock |-> e.landlock]

\* log.Fatal(err): the message on stderr, then os.Exit(1); no deferred call runs.
Fatal_continue ==
    /\ pc' = "baseFlags"
    /\ exitCode' = exitCode
    /\ trace' = trace \o <<"fatal_msg">>

Fatal ==
    /\ pc' = "exited"
    /\ exitCode' = 1
    /\ trace' = trace \o <<"fatal_msg", "os.Exit">>

ResolveConfig ==
    /\ pc = "resolve"
    /\ LET src == SelectSource(env)
           outcome == env.load
       IN
         IF src = "legacy" THEN
             /\ conf' = OldConfig(env)
             /\ trace' = trace \o LoggingPrint(printOn, "migrate_warning") \o <<"OldConfig">>
             /\ pc' = "baseFlags"
             /\ UNCHANGED exitCode
         ELSE IF src = "current" THEN
             IF LoadCurrent(env, outcome).fatal THEN
                 /\ Fatal
                 /\ UNCHANGED conf
             ELSE
                 /\ conf' = LoadCurrent(env, outcome).conf
                 /\ trace' = trace \o <<"NewConfig">>
                 /\ pc' = "baseFlags"
                 /\ UNCHANGED exitCode
         ELSE
             /\ conf' = DefaultConfig
             /\ trace' = trace \o <<"DefaultConfig">>
             /\ pc' = "baseFlags"
             /\ UNCHANGED exitCode
    /\ UNCHANGED <<env, efivarfs, argv, cmdOptions, rootPreRun, flagErrFunc, rwc, tpmerr,
                   deferred, printOn, disableInfo, logLevel, json, subPrints, err,
                   action>>

(***************************************************************************)
(* baseFlags(rootCmd), main.go:60-76 and 115: registers the flags and      *)
(* installs its own PersistentPreRun closure on the root command.          *)
(***************************************************************************)
BaseFlags ==
    /\ pc = "baseFlags"
    /\ rootPreRun' = "baseFlags"
    /\ pc' = "openTPM"
    /\ UNCHANGED <<env, efivarfs, argv, conf, cmdOptions, flagErrFunc, rwc, tpmerr, deferred,
                   printOn, disableInfo, logLevel, json, subPrints, err, action,
                   exitCode, trace>>

(***************************************************************************)
(* Capability negotiation, main.go:117-133.                                *)
(***************************************************************************)
\* rwc, tpmerr := transport.OpenTPM(); if tpmerr == nil { defer rwc.Close() }
OpenTPM ==
    /\ pc = "openTPM"
    /\ rwc' = IF env.tpm THEN "open" ELSE "nil"
    /\ tpmerr' = ~env.tpm
    /\ deferred' = env.tpm
    /\ trace' = trace \o <<"OpenTPM">>
    /\ pc' = "state"
    /\ UNCHANGED <<env, efivarfs, argv, conf, cmdOptions, rootPreRun, flagErrFunc, printOn,
                   disableInfo, logLevel, json, subPrints, err, action, exitCode>>

\* What the firmware-variable store of the machine can be like.
StoreKinds == {"plain", "immutable", "stuck", "unopenable"}

\* efivarfs.NewFS().CheckImmutable().UnsetImmutable().Open(), main.go:129-132:
\* the three builder calls, one after the other, whatever each one finds.
EfivarfsChain_reopen == <<"CheckImmutable", "UnsetImmutable", "Open", "Open">>

EfivarfsChain == <<"CheckImmutable", "UnsetImmutable", "Open">>

\* The value the chain hands back.  The chain returns no error: the handle
\* is stored in state.Efivarfs whether or not the store behind it is usable.
EfivarfsHandle(kind) ==
    IF kind \in {"plain", "immutable"} THEN "usable" ELSE "unusable"

\* state := &config.State{...}: the efivarfs builder chain runs here.
BuildState ==
    /\ pc = "state"
    /\ trace' = trace \o EfivarfsChain
    /\ efivarfs' = EfivarfsHandle(env.efi)
    /\ pc' = "setPreRun"
    /\ UNCHANGED <<env, argv, conf, cmdOptions, rootPreRun, flagErrFunc, rwc, tpmerr,
                   deferred, printOn, disableInfo, logLevel, json, subPrints, err,
                   action, exitCode>>

\* state.HasTPM(): the accessor state.TPM() hands out rwc.
HasTPM == rwc # "nil"

(***************************************************************************)
(* rootCmd.PersistentPreRun = func..., main.go:136: the assignment         *)
(* replaces whatever closure was installed before.                         *)
(***************************************************************************)
SetPersistentPreRun ==
    /\ pc = "setPreRun"
    /\ rootPreRun' = "main"
    /\ pc' = "landlock"
    /\ UNCHANGED <<env, efivarfs, argv, conf, cmdOptions, flagErrFunc, rwc, tpmerr, deferred,
                   printOn, disableInfo, logLevel, json, subPrints, err, action,
                   exitCode, trace>>

(***************************************************************************)
(* The landlock gate, main.go:158-160.                                     *)
(***************************************************************************)
\* What the gate appends to the trace, given state.Config.
LandlockGate_skip(c) == <<>>

LandlockGate(c) == IF c.Landlock THEN <<"LandlockRulesFromConfig">> ELSE <<>>

Landlock ==
    /\ pc = "landlock"
    /\ trace' = trace \o LandlockGate(conf)
    /\ pc' = "setFlagErr"
    /\ UNCHANGED <<env, efivarfs, argv, conf, cmdOptions, rootPreRun, flagErrFunc, rwc, tpmerr,
                   deferred, printOn, disableInfo, logLevel, json, subPrints, err,
                   action, exitCode>>

\* rootCmd.SetFlagErrorFunc(...), main.go:163-167
SetFlagErrorFunc ==
    /\ pc = "setFlagErr"
    /\ flagErrFunc' = TRUE
    /\ pc' = "execute"
    /\ UNCHANGED <<env, efivarfs, argv, conf, cmdOptions, rootPreRun, rwc, tpmerr, deferred,
                   printOn, disableInfo, logLevel, json, subPrints, err, action,
                   exitCode, trace>>

(***************************************************************************)
(* rootCmd.ExecuteContext(ctx), main.go:169.  cobra finds the command,     *)
(* parses the flags, and only for a runnable command with well-formed      *)
(* flags runs the persistent pre-run hook and then the command.            *)
(***************************************************************************)
\* The command line names no registered subcommand: the error comes back
\* before any flag is parsed (SilenceErrors: nothing is printed by cobra).
ExecuteUnknown ==
    /\ pc = "execute"
    /\ argv.kind = "unknown"
    /\ err' = ErrUnknownCommand
    /\ trace' = trace \o <<"ExecuteContext">>
    /\ pc' = "returned"
    /\ UNCHANGED <<env, efivarfs, argv, conf, cmdOptions, rootPreRun, flagErrFunc, rwc, tpmerr,
                   deferred, printOn, disableInfo, logLevel, json, subPrints, action,
                   exitCode>>

\* What the function given to SetFlagErrorFunc returns, main.go:166.
FlagErrorResult_generic == MkErr(FALSE, {})

FlagErrorResult == ErrSilent

\* Flag parsing fails: the flags before the bad one are already stored; the
\* flag error function prints the error and the usage text (main.go:163-167).
ExecuteFlagError ==
    /\ pc = "execute"
    /\ argv.kind = "flagerr"
    /\ flagErrFunc
    /\ \E parsed \in CmdOptions :
         /\ \A f \in FlagNames : parsed[f] => argv.flags[f]
         /\ cmdOptions' = parsed
    /\ trace' = trace \o <<"ExecuteContext", "flag_error", "usage">>
    /\ err' = FlagErrorResult
    /\ pc' = "returned"
    /\ UNCHANGED <<env, efivarfs, argv, conf, rootPreRun, flagErrFunc, rwc, tpmerr, deferred,
                   printOn, disableInfo, logLevel, json, subPrints, action, exitCode>>

\* --help, or a command that is not runnable (the bare root command): cobra
\* prints the help text and ExecuteContext returns nil.
ExecuteHelp ==
    /\ pc = "execute"
    /\ argv.kind = "help"
    /\ cmdOptions' = argv.flags
    /\ trace' = trace \o <<"ExecuteContext", "help">>
    /\ err' = NoErr
    /\ pc' = "returned"
    /\ UNCHANGED <<env, efivarfs, argv, conf, rootPreRun, flagErrFunc, rwc, tpmerr, deferred,
                   printOn, disableInfo, logLevel, json, subPrints, action, exitCode>>

\* A runnable subcommand with well-formed flags: the flags are stored and
\* the persistent pre-run hook comes next.
ExecuteRun ==
    /\ pc = "execute"
    /\ argv.kind = "run"
    /\ cmdOptions' = argv.flags
    /\ trace' = trace \o <<"ExecuteContext">>
    /\ pc' = "prerun"
    /\ UNCHANGED <<env, efivarfs, argv, conf, rootPreRun, flagErrFunc, rwc, tpmerr, deferred,
                   printOn, disableInfo, logLevel, json, subPrints, err, action,
                   exitCode>>

(***************************************************************************)
(* The persistent pre-run hook of the root command.  cobra calls the one   *)
(* closure stored in rootCmd.PersistentPreRun.                             *)
(***************************************************************************)
\* opts.Level, main.go:142-147
HookLevel_alwaysDebug(o) == "debug"

HookLevel(o) == IF o.Debug THEN "debug" ELSE "info"

\* if !state.HasTPM() { slog.Debug(...) }, main.go:151-153: the record is
\* written to stdout when the logger's level lets debug records through.
TpmDiagnostic(level) ==
    IF ~HasTPM /\ level = "debug" THEN <<"tpm_debug">> ELSE <<>>

PersistentPreRun ==
    /\ pc = "prerun"
    /\ IF rootPreRun = "main" THEN
           \* the closure of main.go:136-154
           /\ conf' = IF cmdOptions.DisableLandlock
                      THEN [conf EXCEPT !.Landlock = FALSE] ELSE conf
           /\ logLevel' = HookLevel(cmdOptions)
           /\ trace' = trace \o <<"slog.SetDefault">> \o TpmDiagnostic(logLevel')
           /\ UNCHANGED <<printOn, disableInfo>>
       ELSE IF rootPreRun = "baseFlags" THEN
           \* the closure of main.go:68-75
           /\ printOn' = IF cmdOptions.JsonOutput THEN FALSE ELSE printOn
           /\ disableInfo' = IF cmdOptions.QuietOutput THEN TRUE ELSE disableInfo
           /\ UNCHANGED <<conf, logLevel, trace>>
       ELSE
           UNCHANGED <<conf, logLevel, trace, printOn, disableInfo>>
    /\ pc' = "sub"
    /\ UNCHANGED <<env, efivarfs, argv, cmdOptions, rootPreRun, flagErrFunc, rwc, tpmerr,
                   deferred, json, subPrints, err, action, exitCode>>

(***************************************************************************)
(* The selected subcommand.  Its business logic is not part of main.go;    *)
(* what main.go gives it is the logging channel, JsonOut and the error it  *)
(* hands back.                                                             *)
(***************************************************************************)
\* The first instruction of the subcommand's Run function.
SubBegin ==
    /\ pc = "sub"
    /\ trace' = trace \o <<"SubStart">>
    /\ pc' = "subrun"
    /\ UNCHANGED <<env, efivarfs, argv, conf, cmdOptions, rootPreRun, flagErrFunc, rwc, tpmerr,
                   deferred, printOn, disableInfo, logLevel, json, subPrints, err,
                   action, exitCode>>

\* The subcommand prints a human-readable line through the logging package.
SubPrint ==
    /\ pc = "subrun"
    /\ subPrints < MaxSubPrints
    /\ subPrints' = subPrints + 1
    /\ trace' = trace \o LoggingPrint(printOn, "info")
    /\ UNCHANGED <<env, efivarfs, argv, pc, conf, cmdOptions, rootPreRun, flagErrFunc, rwc,
                   tpmerr, deferred, printOn, disableInfo, logLevel, json, err,
                   action, exitCode>>

\* JsonOut(v), main.go:78-88, from printing state on: the printing state it
\* leaves, the lines it writes and whether it returns an error.
JsonOut_noPrintOn(on, marshalOk) ==
    IF marshalOk
    THEN [printOn |-> FALSE, lines |-> LoggingPrint(on, "json_doc"), failed |-> FALSE]
    ELSE [printOn |-> on, lines |-> <<>>, failed |-> TRUE]

JsonOut(on, marshalOk) ==
    IF marshalOk
    THEN \* PrintOn, Println(document), PrintOff
         [printOn |-> FALSE, lines |-> LoggingPrint(TRUE, "json_doc"), failed |-> FALSE]
    ELSE \* return fmt.Errorf("could not marshal json: %w", err)
         [printOn |-> on, lines |-> <<>>, failed |-> TRUE]

\* A subcommand under --json calls JsonOut.
SubJsonOut ==
    /\ pc = "subrun"
    /\ cmdOptions.JsonOutput
    /\ json = "none"
    /\ \E marshalOk \in BOOLEAN :
         LET r == JsonOut(printOn, marshalOk) IN
         /\ trace' = trace \o r.lines
         /\ printOn' = r.printOn
         /\ json' = IF r.failed THEN "failed" ELSE "ok"
    /\ UNCHANGED <<env, efivarfs, argv, pc, conf, cmdOptions, rootPreRun, flagErrFunc, rwc,
                   tpmerr, deferred, disableInfo, logLevel, subPrints, err, action,
                   exitCode>>

\* The subcommand returns: nil or any error, whatever it printed before
\* and whether or not it called JsonOut (ExecuteContext hands back what the
\* subcommand returns, main.go:169).
SubReturn ==
    /\ pc = "subrun"
    /\ \E e \in SubErrors \cup {NoErr} : err' = e
    /\ pc' = "returned"
    /\ UNCHANGED <<env, efivarfs, argv, conf, cmdOptions, rootPreRun, flagErrFunc, rwc, tpmerr,
                   deferred, printOn, disableInfo, logLevel, json, subPrints, action,
                   exitCode, trace>>

(***************************************************************************)
(* After ExecuteContext, main.go:169-187.                                  *)
(***************************************************************************)
\* errors.Is(err, sentinel)
Is(e, id) == id \in e.ids

\* strings.HasPrefix(err.Error(), "unknown command")
HasUnknownPrefix(e) == e.prefix

\* The if / else if chain of main.go:170-184.
Classify_eventlogFirst(e) ==
    IF HasUnknownPrefix(e) THEN "unknown"
    ELSE IF Is(e, "permission") THEN "permission"
    ELSE IF Is(e, "immutable") THEN "immutable"
    ELSE IF Is(e, "noeventlog") THEN "noeventlog"
    ELSE IF Is(e, "oprom") THEN "oprom"
    ELSE IF Is(e, "setupmode") THEN "setupmode"
    ELSE IF ~Is(e, "silent") THEN "other"
    ELSE "silent"

Classify(e) ==
    IF HasUnknownPrefix(e) THEN "unknown"
    ELSE IF Is(e, "permission") THEN "permission"
    ELSE IF Is(e, "immutable") THEN "immutable"
    ELSE IF Is(e, "oprom") THEN "oprom"
    ELSE IF Is(e, "noeventlog") THEN "noeventlog"
    ELSE IF Is(e, "setupmode") THEN "setupmode"
    ELSE IF ~Is(e, "silent") THEN "other"
    ELSE "silent"

\* The message texts of main.go:47-57, as the parts they are put together
\* from: a headline, then (for the first two) the common text naming the flags.
baseErrorMsg == <<"--microsoft", "--tpm-eventlog", "--yes-this-might-brick-my-machine",
                  "FAQ">>

opromErrorMsg == <<"Found OptionROM in the bootchain">> \o baseErrorMsg

noEventlogErrorMsg == <<"Could not find any TPM Eventlog in the system">> \o baseErrorMsg

setupModeDisabled == <<"Your system is not in Setup Mode!">>

\* The text behind an output line of the classifier (main.go:176-181).
MessageText(line) ==
    CASE line = "oprom_msg"      -> opromErrorMsg
      [] line = "noeventlog_msg" -> noEventlogErrorMsg
      [] line = "setupmode_msg"  -> setupModeDisabled
      [] OTHER                   -> <<>>

\* What each branch hands to logging.Println / logging.Error.
BranchOutput(a) ==
    CASE a = "unknown"    -> <<"unknown_msg">>
      [] a = "permission" -> <<"root_msg">>
      [] a = "immutable"  -> <<"chattr_msg">>
      [] a = "oprom"      -> <<"oprom_msg">>
      [] a = "noeventlog" -> <<"noeventlog_msg">>
      [] a = "setupmode"  -> <<"setupmode_msg">>
      [] a = "other"      -> <<"raw_err">>
      [] OTHER            -> <<>>

\* The exit status main ends with: os.Exit(1) inside if err != nil
\* (main.go:185), a plain return otherwise.
ExitStatus_alwaysZero(e) == 0

ExitStatus(e) == IF e.isnil THEN 0 ELSE 1

\* err != nil: classify, print, os.Exit(1).  os.Exit runs no deferred call.
ClassifyAndExit ==
    /\ pc = "returned"
    /\ ~err.isnil
    /\ action' = Classify(err)
    /\ trace' = trace \o (IF printOn THEN BranchOutput(action') ELSE <<>>) \o <<"os.Exit">>
    /\ exitCode' = ExitStatus(err)
    /\ pc' = "exited"
    /\ UNCHANGED <<env, efivarfs, argv, conf, cmdOptions, rootPreRun, flagErrFunc, rwc, tpmerr,
                   deferred, printOn, disableInfo, logLevel, json, subPrints, err>>

\* err == nil: main returns, the deferred rwc.Close() runs, exit status 0.
MainReturn ==
    /\ pc = "returned"
    /\ err.isnil
    /\ rwc' = IF deferred THEN "closed" ELSE rwc
    /\ trace' = trace \o (IF deferred THEN <<"Close">> ELSE <<>>)
    /\ exitCode' = ExitStatus(err)
    /\ pc' = "exited"
    /\ UNCHANGED <<env, efivarfs, argv, conf, cmdOptions, rootPreRun, flagErrFunc, tpmerr,
                   deferred, printOn, disableInfo, logLevel, json, subPrints, err,
                   action>>

(***************************************************************************)
(* Specification.                                                          *)
(***************************************************************************)
Environments == [legacy : BOOLEAN, current : BOOLEAN, load : LoadOutcomes,
                 landlock : BOOLEAN, tpm : BOOLEAN, efi : StoreKinds]

CommandLines == [flags : CmdOptions, kind : ArgvKinds]

Init ==
    /\ env \in Environments
    /\ argv \in CommandLines
    /\ pc = "resolve"
    /\ conf = NilConf
    /\ cmdOptions = ZeroCmdOptions
    /\ rootPreRun = "none"
    /\ flagErrFunc = FALSE
    /\ rwc = "nil"
    /\ efivarfs = "nil"
    /\ tpmerr = FALSE
    /\ deferred = FALSE
    /\ printOn = TRUE
    /\ disableInfo = FALSE
    /\ logLevel = "default"
    /\ json = "none"
    /\ subPrints = 0
    /\ err = NoErr
    /\ action = "none"
    /\ exitCode = 0
    /\ trace = <<>>

Next ==
    \/ ResolveConfig
    \/ BaseFlags
    \/ OpenTPM
    \/ BuildState
    \/ SetPersistentPreRun
    \/ Landlock
    \/ SetFlagErrorFunc
    \/ ExecuteUnknown
    \/ ExecuteFlagError
    \/ ExecuteHelp
    \/ ExecuteRun
    \/ PersistentPreRun
    \/ SubBegin
    \/ SubPrint
    \/ SubJsonOut
    \/ SubReturn
    \/ ClassifyAndExit
    \/ MainReturn

Spec == Init /\ [][Next]_vars

(***************************************************************************)
(* Reading the trace.                                                      *)
(***************************************************************************)
Has(x) == \E i \in 1..Len(trace) : trace[i] = x

Count(x) == Cardinality({i \in 1..Len(trace) : trace[i] = x})

\* Position of the first x in the trace (0 when there is none).
Pos(x) ==
    IF Has(x) THEN CHOOSE i \in 1..Len(trace) :
                       /\ trace[i] = x
                       /\ \A j \in 1..(i - 1) : trace[j] # x
    ELSE 0

IsOutput(x) == x \in OutputKinds

\* The lines on stdout and stderr, in order.
Outputs == SelectSeq(trace, IsOutput)

\* x occurs, and every x comes before the first y.
AllBefore(x, y) ==
    /\ Has(x)
    /\ \A i \in 1..Len(trace) : trace[i] = x => i < Pos(y)

(***************************************************************************)
(* C1.  The claim: in every run where --disable-landlock is given, the     *)
(* sandbox policy is never derived or applied, whatever the resolved       *)
(* configuration says.                                                     *)
(***************************************************************************)
C1_DisableLandlockNeverSandboxes ==
    argv.flags.DisableLandlock => ~Has("LandlockRulesFromConfig")

(***************************************************************************)
(* C2.  In every run where sandboxing is enabled (in the resolved          *)
(* configuration, or still enabled when the subcommand starts) the         *)
(* sandbox call is complete before the first instruction of the            *)
(* subcommand; it is never made once ExecuteContext has begun; and no      *)
(* subcommand starts before the override, the verbosity setup and the      *)
(* landlock gate are done.                                                 *)
(***************************************************************************)
\* Landlock as the resolver produced it, before any override.
ResolvedLandlock ==
    \/ conf.source = "default"
    \/ conf.source \in {"legacy", "current"} /\ env.landlock

C2_SandboxBeforeSubcommand ==
    /\ (Has("SubStart") /\ (ResolvedLandlock \/ conf.Landlock))
         => AllBefore("LandlockRulesFromConfig", "SubStart")
    /\ (Has("LandlockRulesFromConfig") /\ Has("ExecuteContext"))
         => AllBefore("LandlockRulesFromConfig", "ExecuteContext")
    /\ Count("LandlockRulesFromConfig") <= 1
    /\ Has("SubStart") =>
         /\ AllBefore("slog.SetDefault", "SubStart")
         /\ logLevel # "default"
         /\ cmdOptions.DisableLandlock => ~conf.Landlock
         /\ pc \notin {"resolve", "baseFlags", "openTPM", "state", "setPreRun",
                       "landlock", "setFlagErr", "execute", "prerun"}

C2_Witness ==
    /\ pc = "subrun"
    /\ conf.Landlock
    /\ Has("LandlockRulesFromConfig")

(***************************************************************************)
(* C3.  When the current-format file is selected and fails to read or      *)
(* parse, the process ends with a non-zero exit status, no subcommand      *)
(* executes and no sandbox policy is applied.                              *)
(***************************************************************************)
C3_MalformedConfigIsFatal ==
    (env.current /\ env.load # "ok" /\ pc # "resolve") =>
        /\ pc = "exited"
        /\ exitCode = 1
        /\ ~Has("SubStart")
        /\ ~Has("ExecuteContext")
        /\ ~Has("LandlockRulesFromConfig")

C3_Witness ==
    /\ pc = "exited"
    /\ env.current
    /\ env.load = "parsefail"
    /\ Has("fatal_msg")

(***************************************************************************)
(* C4.  The claim: the TPM transport handle, whenever it was opened        *)
(* successfully, is closed before the process exits, on every exit path.   *)
(***************************************************************************)
C4_TpmClosedOnEveryExit ==
    (pc = "exited" /\ Has("OpenTPM") /\ ~tpmerr) => rwc = "closed"

(***************************************************************************)
(* C5.  The claim: in every run with --json that ends in a successful      *)
(* operation, logging is off when the subcommand starts and the only       *)
(* output of the run is the one JSON document.                             *)
(***************************************************************************)
C5_JsonDocumentIsOnlyOutput ==
    /\ (argv.flags.JsonOutput /\ pc = "subrun") => ~printOn
    /\ (argv.flags.JsonOutput /\ pc = "exited" /\ json = "ok" /\ exitCode = 0)
         => Outputs = <<"json_doc">>

(***************************************************************************)
(* C6.  The claim as stated: in every run where the TPM transport fails    *)
(* to open, the run reaches dispatch, the error is retained, and by the    *)
(* end of the run the TPM-absence diagnostic has been emitted if and only  *)
(* if --debug was given, never before the verbosity was set.               *)
(***************************************************************************)
C6_DiagnosticIffDebugGiven ==
    (pc = "exited" /\ Has("OpenTPM") /\ ~env.tpm) =>
        /\ Has("ExecuteContext")
        /\ tpmerr
        /\ Has("tpm_debug") <=> argv.flags.Debug
        /\ Has("tpm_debug") => AllBefore("slog.SetDefault", "tpm_debug")

(***************************************************************************)
(* C6, amended.  In every run where the TPM transport fails to open, the   *)
(* run reaches dispatch and the error is retained; the diagnostic is       *)
(* emitted only if --debug was given, at most once and only after the      *)
(* verbosity was set from the parsed flags; and in every run whose         *)
(* dispatch reaches the root pre-run hook (a subcommand is started) it is  *)
(* emitted if and only if --debug was given.                               *)
(***************************************************************************)
C6_DiagnosticOnlyAfterVerbosity ==
    (Has("OpenTPM") /\ ~env.tpm) =>
        /\ tpmerr
        /\ ~HasTPM
        /\ pc = "exited" => Has("ExecuteContext")
        /\ Has("tpm_debug") =>
             /\ argv.flags.Debug
             /\ cmdOptions.Debug
             /\ logLevel = "debug"
             /\ Count("tpm_debug") = 1
             /\ AllBefore("slog.SetDefault", "tpm_debug")
        /\ Has("SubStart") => (Has("tpm_debug") <=> argv.flags.Debug)

C6_Witness ==
    /\ pc = "subrun"
    /\ tpmerr
    /\ argv.flags.Debug
    /\ Has("tpm_debug")

(***************************************************************************)
(* C7.  When a legacy configuration is detected and no current-format      *)
(* file exists, the resolver loads the legacy configuration through        *)
(* config.OldConfig, emits exactly one migration warning, and leaves the   *)
(* files as they were: no current-format file appears, the legacy          *)
(* database stays.                                                         *)
(***************************************************************************)
C7_LegacyLoadedWithOneWarning ==
    (HasOldConfig(env) /\ ~HasConfigurationFile(env) /\ pc # "resolve") =>
        /\ conf.source = "legacy"
        /\ Count("OldConfig") = 1
        /\ Count("migrate_warning") = 1
        /\ Pos("migrate_warning") < Pos("OldConfig")
        /\ ~Has("NewConfig")
        /\ ~Has("DefaultConfig")

C7_Witness ==
    /\ pc = "baseFlags"
    /\ env.legacy
    /\ ~env.current
    /\ Has("migrate_warning")
    /\ conf.source = "legacy"

(***************************************************************************)
(* C8.  First-match precedence over every combination of (legacy present,  *)
(* current-format file present): an existing current-format file is        *)
(* selected whether or not a legacy configuration is present; legacy is    *)
(* selected only without one; otherwise the defaults.  Every run that      *)
(* reaches dispatch has exactly one active configuration.                  *)
(***************************************************************************)
\* The precedence table, case by case.
ExpectedSource ==
    CASE env.legacy /\ ~env.current  -> "legacy"
      [] env.legacy /\ env.current   -> "current"
      [] ~env.legacy /\ env.current  -> "current"
      [] ~env.legacy /\ ~env.current -> "default"

C8_FirstMatchPrecedence ==
    /\ (pc # "resolve" /\ ~Has("fatal_msg")) => conf.source = ExpectedSource
    /\ Has("fatal_msg") => (ExpectedSource = "current" /\ conf = NilConf)
    /\ Has("ExecuteContext") =>
         /\ conf.source \in {"legacy", "current", "default"}
         /\ Count("OldConfig") + Count("NewConfig") + Count("DefaultConfig") = 1

C8_Witness ==
    /\ pc = "execute"
    /\ env.legacy
    /\ env.current
    /\ conf.source = "current"
    /\ ~Has("migrate_warning")

(***************************************************************************)
(* C9.  The classifier takes exactly one branch for a non-nil error: the   *)
(* first entry of a fixed order that the error matches.                    *)
(***************************************************************************)
\* Whether error e matches an entry of the classification table.
Matches(entry, e) ==
    CASE entry = "unknown" -> e.prefix
      [] entry = "other"   -> TRUE
      [] OTHER             -> entry \in e.ids

\* The first entry of order that e matches.
FirstMatch(order, e) ==
    order[CHOOSE i \in 1..Len(order) :
              /\ Matches(order[i], e)
              /\ \A j \in 1..(i - 1) : ~Matches(order[j], e)]

\* The order the claim gives: missing-event-log before option-ROM.
ClaimedOrder == <<"unknown", "permission", "immutable", "noeventlog", "oprom",
                  "setupmode", "silent", "other">>

\* The same order with option-ROM before missing-event-log.
AmendedOrder == <<"unknown", "permission", "immutable", "oprom", "noeventlog",
                  "setupmode", "silent", "other">>

ClassifierOutputs == {"unknown_msg", "root_msg", "chattr_msg", "oprom_msg",
                      "noeventlog_msg", "setupmode_msg", "raw_err"}

\* The classifier's lines in the output.
ClassifierLines == {i \in 1..Len(trace) : trace[i] \in ClassifierOutputs}

\* C9, the claim as stated: the action is the first match in the claimed order.
C9_FirstMatchInClaimedOrder ==
    (pc = "exited" /\ ~err.isnil) => action = FirstMatch(ClaimedOrder, err)

\* C9, amended: for every non-nil error returned by dispatch the classifier
\* takes exactly one branch, the first match in the order unrecognized-command,
\* permission-denied, immutable-store, option-ROM-detected, missing-event-log,
\* setup-mode-disabled, silent, anything else; it writes that branch's one
\* message (none for silent, none while printing is off) and nothing else.
C9_FirstMatchInAmendedOrder ==
    /\ (pc = "exited" /\ ~err.isnil) =>
         /\ action = FirstMatch(AmendedOrder, err)
         /\ Cardinality(ClassifierLines) <= 1
         /\ \A i \in ClassifierLines : <<trace[i]>> = BranchOutput(action)
         /\ (printOn /\ action # "silent") => Cardinality(ClassifierLines) = 1
    /\ (pc # "exited" \/ err.isnil) => (action = "none" /\ ClassifierLines = {})

C9_Witness ==
    /\ pc = "exited"
    /\ ~err.prefix
    /\ err.ids = {"oprom", "noeventlog"}
    /\ action = "oprom"
    /\ Has("oprom_msg")

(***************************************************************************)
(* C10.  When flag parsing fails, the error and the usage text are printed *)
(* once each, the dispatcher returns the silent error, the top-level       *)
(* handler prints nothing further and the exit status is 1.                *)
(***************************************************************************)
C10_FlagErrorIsSilent ==
    (pc = "exited" /\ argv.kind = "flagerr" /\ Has("ExecuteContext")) =>
        /\ err = ErrSilent
        /\ action = "silent"
        /\ exitCode = 1
        /\ Count("flag_error") = 1
        /\ Count("usage") = 1
        /\ Pos("usage") = Pos("flag_error") + 1
        /\ \A i \in 1..Len(trace) : i > Pos("usage") => ~IsOutput(trace[i])
        /\ ~Has("SubStart")

C10_Witness ==
    /\ pc = "exited"
    /\ argv.kind = "flagerr"
    /\ action = "silent"
    /\ Has("usage")

(***************************************************************************)
(* C11.  The exit status is 0 if and only if bootstrap completed (the run  *)
(* reached ExecuteContext) and dispatch returned no error; a fatal         *)
(* configuration error and every error returned by dispatch, classified    *)
(* or not, end with status 1; and after an error returned by dispatch      *)
(* nothing follows the classifier's message but the exit.                  *)
(***************************************************************************)
C11_ExitStatus ==
    pc = "exited" =>
        /\ exitCode \in {0, 1}
        /\ exitCode = 0 <=> (Has("ExecuteContext") /\ err.isnil)
        /\ Has("fatal_msg") => exitCode = 1
        /\ ~err.isnil =>
             /\ exitCode = 1
             /\ action # "none"
             /\ trace[Len(trace)] = "os.Exit"
             /\ Count("os.Exit") = 1
             /\ ~Has("Close")
             /\ Count("ExecuteContext") = 1
             /\ Count("SubStart") <= 1
             /\ \A i \in 1..(Len(trace) - 1) :
                    trace[i] \in ClassifierOutputs =>
                        /\ i = Len(trace) - 1
                        /\ <<trace[i]>> = BranchOutput(action)

C11_Witness ==
    /\ pc = "exited"
    /\ exitCode = 1
    /\ action = "other"
    /\ Has("SubStart")
    /\ Has("raw_err")

(***************************************************************************)
(* C12.  The claim: firmware-store negotiation runs check-immutable,       *)
(* clear-immutable, open in this order; the clear is invoked only when     *)
(* the check reported the flag set, and always before the open; if the     *)
(* clear fails the run ends with the immutable-store remediation message   *)
(* and exit status 1.                                                      *)
(***************************************************************************)
C12_ClearGatedAndFatal ==
    /\ Has("Open") =>
         /\ Pos("CheckImmutable") < Pos("UnsetImmutable")
         /\ AllBefore("UnsetImmutable", "Open")
    /\ Has("UnsetImmutable") => env.efi \in {"immutable", "stuck"}
    /\ (pc = "exited" /\ Has("UnsetImmutable") /\ env.efi = "stuck") =>
         /\ exitCode = 1
         /\ Has("chattr_msg")

(***************************************************************************)
(* C13.  The claim: when the firmware-variable store cannot be opened      *)
(* during negotiation, the failure is surfaced as non-recoverable: no      *)
(* subcommand starts with the unusable handle and the run does not end     *)
(* with status 0.                                                          *)
(***************************************************************************)
C13_UnopenableStoreStopsTheRun ==
    (env.efi = "unopenable" /\ Has("Open")) =>
        /\ ~Has("SubStart")
        /\ pc = "exited" => exitCode = 1

(***************************************************************************)
(* C14.  The claim: when a subcommand returns the option-ROM-detected      *)
(* error or the missing-event-log error, the output contains that error's  *)
(* long-form warning, which names --microsoft, --tpm-eventlog and          *)
(* --yes-this-might-brick-my-machine; the text after the headline (the     *)
(* Tail of the message) is the same for both; and the exit status is 1.    *)
(***************************************************************************)
Range(q) == {q[i] : i \in 1..Len(q)}

OverrideFlags == {"--microsoft", "--tpm-eventlog", "--yes-this-might-brick-my-machine"}

\* The two errors of the claim, returned as they are.
SafetyGateErrors == {MkErr(FALSE, {"oprom"}), MkErr(FALSE, {"noeventlog"})}

C15_BaseFlagsHookTakesEffect ==
    pc = "sub" =>
        /\ argv.flags.QuietOutput => disableInfo
        /\ argv.flags.JsonOutput => ~printOn

(***************************************************************************)
(* C16.  In every run the firmware-variable store is opened at most once   *)
(* and the TPM open is attempted at most once; neither handle is replaced  *)
(* later in the run (the TPM handle only goes from open to closed, when    *)
(* main returns), so every caller is handed the same handles.              *)
(***************************************************************************)
C16_OpenedOnce ==
    /\ [](/\ Count("OpenTPM") <= 1
          /\ Count("Open") <= 1
          /\ Count("CheckImmutable") <= 1
          /\ Count("UnsetImmutable") <= 1
          /\ Has("Open") <=> efivarfs # "nil"
          /\ rwc # "nil" => Has("OpenTPM"))
    /\ [][/\ efivarfs # "nil" => efivarfs' = efivarfs
          /\ Has("OpenTPM") =>
               /\ tpmerr' = tpmerr
               /\ \/ rwc' = rwc
                  \/ rwc = "open" /\ rwc' = "closed" /\ pc' = "exited"]_vars

C16_Witness ==
    /\ pc = "subrun"
    /\ Count("OpenTPM") = 1
    /\ Count("Open") = 1
    /\ rwc = "open"
    /\ efivarfs = "usable"

(***************************************************************************)
(* C17.  The claim: the classifier decides by the error's identity only:   *)
(* the unrecognized-command action is taken only for the                   *)
(* unrecognized-subcommand condition, and an error that is                 *)
(* permission-denied or immutable-store gets that identity's remediation   *)
(* whatever its message begins with.                                       *)
(***************************************************************************)
C17_ClassifiedByIdentityOnly ==
    (pc = "exited" /\ ~err.isnil) =>
        /\ action = "unknown" => err = ErrUnknownCommand
        /\ "permission" \in err.ids => action = "permission"
        /\ ("immutable" \in err.ids /\ "permission" \notin err.ids)
             => action = "immutable"

(***************************************************************************)
(* C18.  JsonOut, from either printing state: on success it writes the     *)
(* document exactly once and leaves printing off; on a marshalling         *)
(* failure it returns an error, writes nothing and leaves the printing     *)
(* state as it was.  (The error is JsonOut's own result; what the          *)
(* subcommand then returns to main is its own choice.)                     *)
(***************************************************************************)
\* Lines that can be on the output before a subcommand calls JsonOut.
MaxPriorLines == 3

PriorLines == {"migrate_warning", "tpm_debug", "info"}

PriorOutputs == UNION {[1..n -> PriorLines] : n \in 0..MaxPriorLines}

\* A subcommand about to call JsonOut, with printing on or off.
InitJsonOut ==
    /\ env = [legacy |-> FALSE, current |-> FALSE, load |-> "ok",
              landlock |-> TRUE, tpm |-> TRUE, efi |-> "plain"]
    /\ argv = [flags |-> [ZeroCmdOptions EXCEPT !["JsonOutput"] = TRUE], kind |-> "run"]
    /\ pc = "subrun"
    /\ conf = DefaultConfig
    /\ cmdOptions = argv.flags
    /\ rootPreRun = "main"
    /\ flagErrFunc = TRUE
    /\ rwc = "open"
    /\ efivarfs = "usable"
    /\ tpmerr = FALSE
    /\ deferred = TRUE
    /\ printOn \in BOOLEAN
    /\ disableInfo = FALSE
    /\ logLevel = "info"
    /\ json = "none"
    /\ subPrints = 0
    /\ err = NoErr
    /\ action = "none"
    /\ exitCode = 0
    /\ trace \in PriorOutputs

NextJsonOut ==
    \/ SubJsonOut
    \/ SubReturn

SpecJsonOut == InitJsonOut /\ [][NextJsonOut]_vars

C18_JsonOutFrame ==
    /\ [][(json = "none" /\ json' = "ok") =>
            /\ trace' = Append(trace, "json_doc")
            /\ ~printOn']_vars
    /\ [][(json = "none" /\ json' = "failed") =>
            /\ trace' = trace
            /\ printOn' = printOn]_vars
    /\ [](\A on \in BOOLEAN : /\ JsonOut(on, FALSE).failed
                               /\ ~JsonOut(on, TRUE).failed)
    /\ [](Count("json_doc") <= 1)

C18_Witness ==
    /\ json = "failed"
    /\ ~printOn
    /\ pc = "returned"
    /\ ~Has("json_doc")

(***************************************************************************)
(* C19.  Capability negotiation happens only after configuration           *)
(* resolution has succeeded: in a run that ends in a fatal configuration   *)
(* error the TPM transport is never opened and the firmware store is       *)
(* never checked, cleared or opened.                                       *)
(***************************************************************************)
C19_NegotiationAfterResolution ==
    /\ Has("fatal_msg") =>
         /\ pc = "exited"
         /\ ~Has("OpenTPM")
         /\ ~Has("CheckImmutable")
         /\ ~Has("UnsetImmutable")
         /\ ~Has("Open")
         /\ rwc = "nil"
         /\ efivarfs = "nil"
    /\ (Has("OpenTPM") \/ Has("CheckImmutable") \/ Has("Open")) =>
         /\ conf # NilConf
         /\ Count("OldConfig") + Count("NewConfig") + Count("DefaultConfig") = 1
         /\ \A i \in 1..Len(trace) :
              trace[i] \in {"OldConfig", "NewConfig", "DefaultConfig"}
                  => i < Pos("OpenTPM")
         /\ Pos("OpenTPM") < Pos("CheckImmutable") \/ ~Has("CheckImmutable")

C19_Witness ==
    /\ pc = "exited"
    /\ Has("fatal_msg")
    /\ env.tpm
    /\ env.efi = "immutable"
    /\ env.load = "readfail"

====
